---- MODULE Spec2Model ----
(***************************************************************************)
(* A model of go-dag: the DAG container (dag.go, type DAG) and its nodes   *)
(* (type Node).  Nodes are heap objects with an identity; the DAG's index  *)
(* d.nodes maps a value to the node object registered for it.  A node that *)
(* was removed, or orphaned by Clear, stays on the heap with the adjacency *)
(* sets it had for as long as something still refers to it; Go reclaims an *)
(* object once neither the DAG nor the caller can reach it.                *)
(***************************************************************************)
EXTENDS Integers, Sequences, FiniteSets, TLC

\* Number of distinct values the callers use.
NumValues == 3

\* Number of Node objects that may be alive at the same time.
MaxObj == 4

\* Number of distinct values used while the caller keeps a node it looked up.
NumHandleValues == 2

\* The values: 5, 10, 15, ...  Their textual forms "5", "10", "15" sort
\* differently from the numbers themselves.
Values == {5 * i : i \in 1..NumValues}

\* The nil *Node.
Nil == 0

\* Node objects (addresses).
Objs == 1..MaxObj

VARIABLES
    nodes,      \* d.nodes : value -> *Node (Nil when the key is absent)
    data,       \* Node.data of each object
    parents,    \* Node.parents of each object (a set of objects)
    children,   \* Node.children of each object (a set of objects)
    last,       \* the most recent call, its arguments and what it returned
    handle      \* a *Node the caller got from DAG.Node and still keeps

vars == <<nodes, data, parents, children, last, handle>>

\* The DAG, with the heap its nodes live on, as one value.
G == [nodes |-> nodes, data |-> data, parents |-> parents, children |-> children]

----------------------------------------------------------------------------
(* Helpers *)

\* All orderings of a finite set, as sequences without repetition.
RECURSIVE Perms(_)
Perms(S) ==
    IF S = {} THEN {<<>>}
    ELSE UNION {{<<x>> \o p : p \in Perms(S \ {x})} : x \in S}

\* fmt.Sprintf("%v", v) for an int: the decimal digits, most significant first.
RECURSIVE Sprintf(_)
Sprintf(v) == IF v < 10 THEN <<v>> ELSE Sprintf(v \div 10) \o <<v % 10>>

\* Go's < on strings: lexicographic on the bytes; a proper prefix is smaller.
RECURSIVE StringLess(_, _)
StringLess(s, t) ==
    IF t = <<>> THEN FALSE
    ELSE IF s = <<>> THEN TRUE
    ELSE IF Head(s) # Head(t) THEN Head(s) < Head(t)
    ELSE StringLess(Tail(s), Tail(t))

\* sort.Slice of a set of nodes by the textual form of their data.
RECURSIVE SortByData(_, _)
SortByData(g, S) ==
    IF S = {} THEN <<>>
    ELSE LET m == CHOOSE x \in S : \A y \in S \ {x} :
                      ~StringLess(Sprintf(g.data[y]), Sprintf(g.data[x]))
         IN  <<m>> \o SortByData(g, S \ {m})

\* The keys present in d.nodes.
Keys(g) == {v \in Values : g.nodes[v] # Nil}

\* The node objects registered in d.nodes.
Registered(g) == {g.nodes[v] : v \in Keys(g)}

\* The orders in which a range over d.nodes may enumerate its keys.
MapOrders(g) == Perms(Keys(g))

----------------------------------------------------------------------------
(* Node *)

\* Node.Parents
Parents(g, n) == SortByData(g, g.parents[n])

\* Node.Children
Children(g, n) == SortByData(g, g.children[n])

\* The closure visit of Node.hasAncestor, with its visited set threaded through.
RECURSIVE visitAncestor(_, _, _, _), visitAncestorLoop(_, _, _, _)
visitAncestor(g, node, ancestor, visited) ==
    IF node = ancestor THEN [found |-> TRUE, visited |-> visited]
    ELSE visitAncestorLoop(g, Parents(g, node), ancestor, visited \cup {node})

visitAncestorLoop(g, ps, ancestor, visited) ==
    IF ps = <<>> THEN [found |-> FALSE, visited |-> visited]
    ELSE IF Head(ps) \in visited
         THEN visitAncestorLoop(g, Tail(ps), ancestor, visited)
         ELSE LET r == visitAncestor(g, Head(ps), ancestor, visited)
              IN  IF r.found THEN r
                  ELSE visitAncestorLoop(g, Tail(ps), ancestor, r.visited)

\* hasAncestor looking at the direct parents only.
hasAncestorDirect(g, n, ancestor) == n = ancestor \/ ancestor \in g.parents[n]

\* hasAncestor with receiver and argument exchanged.
hasAncestorSwapped(g, n, ancestor) == visitAncestor(g, ancestor, n, {}).found

\* Node.hasAncestor
hasAncestor(g, n, ancestor) == visitAncestor(g, n, ancestor, {}).found

----------------------------------------------------------------------------
(* DAG: the operations as functions of the graph *)

\* NewDAG
NewDAG ==
    [nodes |-> [v \in Values |-> Nil], data |-> [o \in Objs |-> Nil],
     parents |-> [o \in Objs |-> {}], children |-> [o \in Objs |-> {}]]

\* The objects that hold no node: never allocated, or reclaimed.
Free(g) == {o \in Objs : g.data[o] = Nil}

\* The address the allocator hands out for a node of value v: any free one
\* will do, since the program only ever compares node addresses for equality;
\* this allocator prefers the slot numbered like the value, else the lowest.
Fresh(g, v) ==
    IF (v \div 5) \in Free(g) THEN v \div 5
    ELSE CHOOSE x \in Free(g) : \A y \in Free(g) : x <= y

\* NewNode: a fresh object with its data and empty adjacency; the heap
\* afterwards and the new node.
NewNode(g, v) ==
    LET o == Fresh(g, v)
    IN  [g |-> [g EXCEPT !.data[o] = v, !.parents[o] = {}, !.children[o] = {}],
         node |-> o]

\* AddNode without the lookup of an existing node.
addNodeAlways(g, v) ==
    LET h == NewNode(g, v)
    IN  [g |-> [h.g EXCEPT !.nodes[v] = h.node], node |-> h.node]

\* DAG.AddNode: the graph afterwards and the node returned.
addNode(g, v) ==
    IF g.nodes[v] # Nil
    THEN [g |-> g, node |-> g.nodes[v]]
    ELSE LET h == NewNode(g, v)
         IN  [g |-> [h.g EXCEPT !.nodes[v] = h.node], node |-> h.node]

\* DAG.AddEdge: the graph afterwards and the error returned.
addEdge(g, from, to) ==
    LET a == addNode(g, from)
        b == addNode(a.g, to)
        fromNode == a.node
        toNode == b.node
    IN  IF hasAncestor(b.g, fromNode, toNode)
        THEN [g |-> b.g, err |-> "ErrCycleDetected"]
        ELSE [g |-> [b.g EXCEPT !.children[fromNode] = @ \cup {toNode},
                                !.parents[toNode] = @ \cup {fromNode}],
              err |-> "nil"]

\* RemoveNode without the loop over node.children.
removeNodeParentsOnly(g, v) ==
    IF g.nodes[v] = Nil THEN g
    ELSE LET node == g.nodes[v]
         IN  [g EXCEPT
                !.children = [o \in Objs |-> IF o \in g.parents[node]
                                             THEN g.children[o] \ {node}
                                             ELSE g.children[o]],
                !.nodes[v] = Nil]

\* RemoveNode that also empties the removed node's own sets.
removeNodeAndUnlink(g, v) ==
    IF g.nodes[v] = Nil THEN g
    ELSE LET node == g.nodes[v]
         IN  [g EXCEPT
                !.children = [o \in Objs |-> IF o = node THEN {}
                                             ELSE g.children[o] \ {node}],
                !.parents = [o \in Objs |-> IF o = node THEN {}
                                            ELSE g.parents[o] \ {node}],
                !.nodes[v] = Nil]

\* DAG.RemoveNode
removeNode(g, v) ==
    IF g.nodes[v] = Nil THEN g
    ELSE LET node == g.nodes[v]
         IN  [g EXCEPT
                !.children = [o \in Objs |-> IF o \in g.parents[node]
                                             THEN g.children[o] \ {node}
                                             ELSE g.children[o]],
                !.parents = [o \in Objs |-> IF o \in g.children[node]
                                            THEN g.parents[o] \ {node}
                                            ELSE g.parents[o]],
                !.nodes[v] = Nil]

\* RemoveEdge without the delete from toNode.parents.
removeEdgeOneSided(g, from, to) ==
    IF g.nodes[from] = Nil \/ g.nodes[to] = Nil THEN g
    ELSE [g EXCEPT !.children[g.nodes[from]] = @ \ {g.nodes[to]}]

\* RemoveEdge deleting the link in both directions.
removeEdgeBothWays(g, from, to) ==
    IF g.nodes[from] = Nil \/ g.nodes[to] = Nil THEN g
    ELSE LET fromNode == g.nodes[from]
             toNode == g.nodes[to]
         IN  [g EXCEPT !.children = [o \in Objs |->
                            IF o = fromNode THEN g.children[o] \ {toNode}
                            ELSE IF o = toNode THEN g.children[o] \ {fromNode}
                            ELSE g.children[o]],
                       !.parents = [o \in Objs |->
                            IF o = toNode THEN g.parents[o] \ {fromNode}
                            ELSE IF o = fromNode THEN g.parents[o] \ {toNode}
                            ELSE g.parents[o]]]

\* DAG.RemoveEdge
removeEdge(g, from, to) ==
    IF g.nodes[from] = Nil \/ g.nodes[to] = Nil THEN g
    ELSE LET fromNode == g.nodes[from]
             toNode == g.nodes[to]
         IN  [g EXCEPT !.children[fromNode] = @ \ {toNode},
                       !.parents[toNode] = @ \ {fromNode}]

\* Clear dropping only the nodes that have no parents.
clearRoots(g) ==
    [g EXCEPT !.nodes = [v \in Values |->
        IF g.nodes[v] # Nil /\ g.parents[g.nodes[v]] # {} THEN g.nodes[v] ELSE Nil]]

\* DAG.Clear
clear(g) == [g EXCEPT !.nodes = [v \in Values |-> Nil]]

\* DAG.Node
Node(g, v) == g.nodes[v]

\* DAG.Nodes, for one enumeration order of d.nodes.
Nodes(g, order) == [i \in 1..Len(order) |-> g.nodes[order[i]]]

\* DAG.Edges, for one enumeration order of d.nodes.
RECURSIVE Edges(_, _)
Edges(g, order) ==
    IF order = <<>> THEN <<>>
    ELSE LET node == g.nodes[Head(order)]
             cs == Children(g, node)
         IN  [i \in 1..Len(cs) |-> <<node, cs[i]>>] \o Edges(g, Tail(order))

----------------------------------------------------------------------------
(* DAG.Traverse *)

\* The inner loop enqueuing every child, whatever its remaining in-degree.
RECURSIVE traverseChildrenEager(_, _, _)
traverseChildrenEager(cs, queue, inDegree) ==
    IF cs = <<>> THEN [queue |-> queue, inDegree |-> inDegree]
    ELSE traverseChildrenEager(Tail(cs), Append(queue, Head(cs)),
                               [inDegree EXCEPT ![Head(cs)] = @ - 1])

\* The inner loop over current.Children(): decrement, enqueue on zero.
RECURSIVE traverseChildren(_, _, _)
traverseChildren(cs, queue, inDegree) ==
    IF cs = <<>> THEN [queue |-> queue, inDegree |-> inDegree]
    ELSE LET child == Head(cs)
             deg == [inDegree EXCEPT ![child] = @ - 1]
         IN  traverseChildren(Tail(cs),
                              IF deg[child] = 0 THEN Append(queue, child) ELSE queue,
                              deg)

\* The loop "for len(queue) > 0".
RECURSIVE traverseLoop(_, _, _, _)
traverseLoop(g, queue, inDegree, sorted) ==
    IF queue = <<>> THEN sorted
    ELSE LET current == Head(queue)
             r == traverseChildren(Children(g, current), Tail(queue), inDegree)
         IN  traverseLoop(g, r.queue, r.inDegree, Append(sorted, current))

\* DAG.Traverse, for one enumeration order of the inDegree map.  A key that
\* is missing from the map reads as 0, as in Go.
Traverse(g, order) ==
    LET inDegree == [o \in Objs |-> IF o \in Registered(g)
                                    THEN Cardinality(g.parents[o]) ELSE 0]
        scan == [i \in 1..Len(order) |-> g.nodes[order[i]]]
        queue == SelectSeq(scan, LAMBDA n : inDegree[n] = 0)
    IN  traverseLoop(g, queue, inDegree, <<>>)

----------------------------------------------------------------------------
(* Slices: Go tells a nil slice from one that holds elements *)

\* The nil slice, as "var s []*Node[T]" and "return nil" give it.
NilSlice == [isNil |-> TRUE, elems |-> <<>>]

\* A slice holding the elements of a sequence; append never yields nil.
SliceOf(elems) == [isNil |-> FALSE, elems |-> elems]

----------------------------------------------------------------------------
(* DAG.Walk *)

\* The closure walk of DAG.Walk; st carries the visited set and the values
\* handed to visit so far.
RECURSIVE walk(_, _, _), walkChildren(_, _, _)

\* walk without the check of the visited set.
walkRevisiting(g, node, st) ==
    walkChildren(g, Children(g, node),
                 [visited |-> st.visited \cup {node},
                  out |-> Append(st.out, g.data[node])])

walk(g, node, st) ==
    IF node \in st.visited THEN st
    ELSE walkChildren(g, Children(g, node),
                      [visited |-> st.visited \cup {node},
                       out |-> Append(st.out, g.data[node])])

walkChildren(g, cs, st) ==
    IF cs = <<>> THEN st
    ELSE walkChildren(g, Tail(cs), walk(g, Head(cs), st))

\* DAG.Walk: the values visit is called with, in call order.
Walk(g, start) ==
    IF g.nodes[start] = Nil THEN <<>>
    ELSE walk(g, g.nodes[start], [visited |-> {}, out |-> <<>>]).out

----------------------------------------------------------------------------
(* DAG.BreadthFirstWalk, DAG.ReverseBreadthFirstWalk *)

\* The inner loop of both walks: enqueue and mark each neighbour not seen yet.
RECURSIVE enqueueUnseen(_, _, _)

\* The inner loop enqueuing the unseen neighbours without marking them.
enqueueUnmarked(ns, queue, visited) ==
    IF ns = <<>> THEN [queue |-> queue, visited |-> visited]
    ELSE IF Head(ns) \in visited
         THEN enqueueUnseen(Tail(ns), queue, visited)
         ELSE enqueueUnseen(Tail(ns), Append(queue, Head(ns)), visited)

enqueueUnseen(ns, queue, visited) ==
    IF ns = <<>> THEN [queue |-> queue, visited |-> visited]
    ELSE IF Head(ns) \in visited
         THEN enqueueUnseen(Tail(ns), queue, visited)
         ELSE enqueueUnseen(Tail(ns), Append(queue, Head(ns)), visited \cup {Head(ns)})

\* The queue loop of BreadthFirstWalk.
RECURSIVE breadthFirstLoop(_, _, _, _)
breadthFirstLoop(g, queue, visited, out) ==
    IF queue = <<>> THEN out
    ELSE LET current == Head(queue)
             r == enqueueUnseen(Children(g, current), Tail(queue), visited)
         IN  breadthFirstLoop(g, r.queue, r.visited, Append(out, g.data[current]))

\* DAG.BreadthFirstWalk: the values visit is called with, in call order.
BreadthFirstWalk(g, start) ==
    IF g.nodes[start] = Nil THEN <<>>
    ELSE breadthFirstLoop(g, <<g.nodes[start]>>, {g.nodes[start]}, <<>>)

\* The queue loop of ReverseBreadthFirstWalk.
RECURSIVE reverseBreadthFirstLoop(_, _, _, _)
reverseBreadthFirstLoop(g, queue, visited, out) ==
    IF queue = <<>> THEN out
    ELSE LET current == Head(queue)
             r == enqueueUnseen(Parents(g, current), Tail(queue), visited)
         IN  reverseBreadthFirstLoop(g, r.queue, r.visited, Append(out, g.data[current]))

\* DAG.ReverseBreadthFirstWalk: the values visit is called with, in call order.
ReverseBreadthFirstWalk(g, start) ==
    IF g.nodes[start] = Nil THEN <<>>
    ELSE reverseBreadthFirstLoop(g, <<g.nodes[start]>>, {g.nodes[start]}, <<>>)

----------------------------------------------------------------------------
(* DAG.LevelOrder *)

\* The two nested loops over currentLevel and node.Children().
RECURSIVE levelChildren(_, _, _)

\* The inner loop putting every child on the next level, whatever its
\* remaining in-degree.
levelChildrenEager(cs, nextLevel, inDegree) ==
    IF cs = <<>> THEN [nextLevel |-> nextLevel, inDegree |-> inDegree]
    ELSE levelChildren(Tail(cs), Append(nextLevel, Head(cs)),
                       [inDegree EXCEPT ![Head(cs)] = @ - 1])

levelChildren(cs, nextLevel, inDegree) ==
    IF cs = <<>> THEN [nextLevel |-> nextLevel, inDegree |-> inDegree]
    ELSE LET child == Head(cs)
             deg == [inDegree EXCEPT ![child] = @ - 1]
         IN  levelChildren(Tail(cs),
                           IF deg[child] = 0 THEN Append(nextLevel, child) ELSE nextLevel,
                           deg)

RECURSIVE levelNodes(_, _, _, _)
levelNodes(g, level, nextLevel, inDegree) ==
    IF level = <<>> THEN [nextLevel |-> nextLevel, inDegree |-> inDegree]
    ELSE LET r == levelChildren(Children(g, Head(level)), nextLevel, inDegree)
         IN  levelNodes(g, Tail(level), r.nextLevel, r.inDegree)

\* The loop "for len(currentLevel) > 0".
RECURSIVE levelLoop(_, _, _, _)
levelLoop(g, currentLevel, inDegree, levels) ==
    IF currentLevel = <<>> THEN levels
    ELSE LET r == levelNodes(g, currentLevel, <<>>, inDegree)
         IN  levelLoop(g, r.nextLevel, r.inDegree, Append(levels, currentLevel))

\* DAG.LevelOrder, for one enumeration order of the inDegree map.
LevelOrder(g, order) ==
    LET inDegree == [o \in DOMAIN g.data |-> IF o \in Registered(g)
                                             THEN Cardinality(g.parents[o]) ELSE 0]
        scan == [i \in 1..Len(order) |-> g.nodes[order[i]]]
        currentLevel == SelectSeq(scan, LAMBDA n : inDegree[n] = 0)
    IN  levelLoop(g, currentLevel, inDegree, <<>>)

----------------------------------------------------------------------------
(* DAG.Visualize *)

\* The characters of the decimal digits.
DigitChar == <<"0", "1", "2", "3", "4", "5", "6", "7", "8", "9">>

\* The text fmt.Sprintf("%v", v) yields, as a sequence of characters.
Text(v) == [i \in 1..Len(Sprintf(v)) |-> DigitChar[Sprintf(v)[i] + 1]]

\* One statement of the DOT text: four spaces, the quoted source, the arrow,
\* the quoted target.
DotLine(from, to) ==
    <<"    ", "\"">> \o Text(from) \o <<"\"", " -> ", "\"">> \o Text(to) \o <<"\"", ";", "\n">>

\* The statements for the nodes in one enumeration order of d.nodes.
RECURSIVE dotChildren(_, _, _), dotNodes(_, _)
dotChildren(g, node, cs) ==
    IF cs = <<>> THEN <<>>
    ELSE DotLine(g.data[node], g.data[Head(cs)]) \o dotChildren(g, node, Tail(cs))

dotNodes(g, order) ==
    IF order = <<>> THEN <<>>
    ELSE dotChildren(g, g.nodes[Head(order)], Children(g, g.nodes[Head(order)]))
         \o dotNodes(g, Tail(order))

\* DAG.Visualize, for one enumeration order of d.nodes.
Visualize(g, order) ==
    <<"digraph G {", "\n">> \o dotNodes(g, order) \o <<"}", "\n">>

----------------------------------------------------------------------------
(* DAG.HasEdge, DAG.HasPath *)

\* DAG.HasEdge
HasEdge(g, from, to) ==
    IF g.nodes[from] = Nil \/ g.nodes[to] = Nil THEN FALSE
    ELSE \E i \in 1..Len(Children(g, g.nodes[from])) :
            Children(g, g.nodes[from])[i] = g.nodes[to]

\* The closure visit of DAG.HasPath, with its visited set threaded through.
RECURSIVE visitPath(_, _, _, _), visitPathChildren(_, _, _, _)
visitPath(g, node, toNode, visited) ==
    IF node = toNode THEN [found |-> TRUE, visited |-> visited]
    ELSE visitPathChildren(g, Children(g, node), toNode, visited \cup {node})

visitPathChildren(g, cs, toNode, visited) ==
    IF cs = <<>> THEN [found |-> FALSE, visited |-> visited]
    ELSE IF Head(cs) \in visited
         THEN visitPathChildren(g, Tail(cs), toNode, visited)
         ELSE LET r == visitPath(g, Head(cs), toNode, visited)
              IN  IF r.found THEN r
                  ELSE visitPathChildren(g, Tail(cs), toNode, r.visited)

\* HasPath looking at the direct children only.
HasPathDirect(g, from, to) ==
    IF g.nodes[from] = Nil \/ g.nodes[to] = Nil THEN FALSE
    ELSE g.nodes[from] = g.nodes[to] \/ g.nodes[to] \in g.children[g.nodes[from]]

\* DAG.HasPath
HasPath(g, from, to) ==
    IF g.nodes[from] = Nil \/ g.nodes[to] = Nil THEN FALSE
    ELSE visitPath(g, g.nodes[from], g.nodes[to], {}).found

----------------------------------------------------------------------------
(* DAG.ShortestPath *)

\* The inner loop: each unseen child is marked and queued with its path.
RECURSIVE pathChildren(_, _, _, _)

\* The inner loop queuing each child with a path that lacks current.path.
pathChildrenNoPrefix(cs, current, queue, visited) ==
    IF cs = <<>> THEN [queue |-> queue, visited |-> visited]
    ELSE IF Head(cs) \in visited
         THEN pathChildren(Tail(cs), current, queue, visited)
         ELSE pathChildren(Tail(cs), current,
                           Append(queue, [node |-> Head(cs), path |-> <<Head(cs)>>]),
                           visited \cup {Head(cs)})

pathChildren(cs, current, queue, visited) ==
    IF cs = <<>> THEN [queue |-> queue, visited |-> visited]
    ELSE IF Head(cs) \in visited
         THEN pathChildren(Tail(cs), current, queue, visited)
         ELSE pathChildren(Tail(cs), current,
                           Append(queue, [node |-> Head(cs),
                                          path |-> Append(current.path, Head(cs))]),
                           visited \cup {Head(cs)})

\* The queue loop of ShortestPath.
RECURSIVE pathLoop(_, _, _, _)
pathLoop(g, queue, visited, toNode) ==
    IF queue = <<>> THEN NilSlice
    ELSE LET current == Head(queue)
         IN  IF current.node = toNode THEN SliceOf(current.path)
             ELSE LET r == pathChildren(Children(g, current.node), current,
                                        Tail(queue), visited)
                  IN  pathLoop(g, r.queue, r.visited, toNode)

\* DAG.ShortestPath
ShortestPath(g, from, to) ==
    IF g.nodes[from] = Nil \/ g.nodes[to] = Nil THEN NilSlice
    ELSE pathLoop(g, <<[node |-> g.nodes[from], path |-> <<g.nodes[from]>>]>>,
                  {g.nodes[from]}, g.nodes[to])

----------------------------------------------------------------------------
(* DAG.Ancestors, DAG.Descendants *)

\* The closure visit of both: each unseen neighbour is marked, appended and
\* visited in turn; ns is what is left of the loop over the neighbours.
RECURSIVE visitParents(_, _, _), visitChildren(_, _, _)

\* visit appending the unseen parents without visiting them in turn.
visitParentsDirect(g, ns, st) ==
    IF ns = <<>> THEN st
    ELSE IF Head(ns) \in st.visited
         THEN visitParents(g, Tail(ns), st)
         ELSE visitParents(g, Tail(ns),
                  [visited |-> st.visited \cup {Head(ns)},
                   out |-> Append(st.out, Head(ns))])

visitParents(g, ns, st) ==
    IF ns = <<>> THEN st
    ELSE IF Head(ns) \in st.visited
         THEN visitParents(g, Tail(ns), st)
         ELSE visitParents(g, Tail(ns),
                  visitParents(g, Parents(g, Head(ns)),
                               [visited |-> st.visited \cup {Head(ns)},
                                out |-> Append(st.out, Head(ns))]))

visitChildren(g, ns, st) ==
    IF ns = <<>> THEN st
    ELSE IF Head(ns) \in st.visited
         THEN visitChildren(g, Tail(ns), st)
         ELSE visitChildren(g, Tail(ns),
                  visitChildren(g, Children(g, Head(ns)),
                                [visited |-> st.visited \cup {Head(ns)},
                                 out |-> Append(st.out, Head(ns))]))

\* The slice a variable declared "var s []*Node[T]" holds after the appends
\* that produced elems: still nil when there was none.
Appended(elems) == IF elems = <<>> THEN NilSlice ELSE SliceOf(elems)

\* DAG.Ancestors
Ancestors(g, v) ==
    IF g.nodes[v] = Nil THEN NilSlice
    ELSE Appended(visitParents(g, Parents(g, g.nodes[v]),
                               [visited |-> {}, out |-> <<>>]).out)

\* DAG.Descendants
Descendants(g, v) ==
    IF g.nodes[v] = Nil THEN NilSlice
    ELSE Appended(visitChildren(g, Children(g, g.nodes[v]),
                                [visited |-> {}, out |-> <<>>]).out)

----------------------------------------------------------------------------
(* The state machine: one action per exported operation *)

\* A call of op with its arguments, before it returns: no node, no error, no
\* nodes returned (a nil slice), no levels, visit not called, the graph not
\* written to.
Call(op, from, to) ==
    [op |-> op, from |-> from, to |-> to, node |-> Nil, err |-> "nil", seq |-> <<>>,
     changed |-> FALSE, isNil |-> TRUE, levels |-> <<>>, visits |-> <<>>]

\* The objects reachable from the set S through parents and children.
RECURSIVE Reachable(_, _)
Reachable(g, S) ==
    LET T == S \cup UNION {g.parents[o] \cup g.children[o] : o \in S}
    IN  IF T = S THEN S ELSE Reachable(g, T)

\* The nodes the caller holds after the call l returned.
Held(l) ==
    ({l.node} \cup {l.seq[i] : i \in 1..Len(l.seq)}
              \cup UNION {{l.levels[k][i] : i \in 1..Len(l.levels[k])} :
                             k \in 1..Len(l.levels)}) \ {Nil}

\* The heap once the objects that nothing can reach are reclaimed.
Collect(g, roots) ==
    LET R == Reachable(g, roots)
    IN  [g EXCEPT !.data = [o \in Objs |-> IF o \in R THEN g.data[o] ELSE Nil],
                  !.parents = [o \in Objs |-> IF o \in R THEN g.parents[o] ELSE {}],
                  !.children = [o \in Objs |-> IF o \in R THEN g.children[o] ELSE {}]]

\* The call l returns, leaving the graph g and the caller keeping the node
\* kept; changed records whether the call wrote anything to the graph.
ReturnKeeping(g, l, kept) ==
    LET h == Collect(g, Registered(g) \cup Held(l) \cup ({kept} \ {Nil}))
    IN  /\ nodes' = h.nodes
        /\ data' = h.data
        /\ parents' = h.parents
        /\ children' = h.children
        /\ last' = [l EXCEPT !.changed = (g # G)]
        /\ handle' = kept

\* The call l returns, leaving the graph g; the caller keeps what it kept.
Return(g, l) == ReturnKeeping(g, l, handle)

Init ==
    /\ nodes = NewDAG.nodes
    /\ data = NewDAG.data
    /\ parents = NewDAG.parents
    /\ children = NewDAG.children
    /\ last = Call("NewDAG", Nil, Nil)
    /\ handle = Nil

\* Number of objects a call has to allocate for the values vs.
Needs(vs) == Cardinality({v \in vs : nodes[v] = Nil})

\* The heap has room for the nodes the call creates.
Room(vs) == Needs(vs) <= Cardinality(Free(G))

AddNode(v) ==
    /\ Room({v})
    /\ LET r == addNode(G, v)
       IN  Return(r.g, [Call("AddNode", v, Nil) EXCEPT !.node = r.node])

AddEdge(from, to) ==
    /\ Room({from, to})
    /\ LET r == addEdge(G, from, to)
       IN  Return(r.g, [Call("AddEdge", from, to) EXCEPT !.err = r.err])

RemoveNode(v) ==
    Return(removeNode(G, v), Call("RemoveNode", v, Nil))

RemoveEdge(from, to) ==
    Return(removeEdge(G, from, to), Call("RemoveEdge", from, to))

Clear ==
    Return(clear(G), Call("Clear", Nil, Nil))

TraverseCall ==
    \E order \in MapOrders(G) :
        Return(G, [Call("Traverse", Nil, Nil) EXCEPT !.seq = Traverse(G, order)])

Next ==
    \/ \E v \in Values : AddNode(v)
    \/ \E from \in Values, to \in Values : AddEdge(from, to)
    \/ \E v \in Values : RemoveNode(v)
    \/ \E from \in Values, to \in Values : RemoveEdge(from, to)
    \/ Clear
    \/ TraverseCall

Spec == Init /\ [][Next]_vars

----------------------------------------------------------------------------
(* The queries, each on top of the operations that build the graph *)

\* The operations that write to the graph.
Mutate ==
    \/ \E v \in Values : AddNode(v)
    \/ \E from \in Values, to \in Values : AddEdge(from, to)
    \/ \E v \in Values : RemoveNode(v)
    \/ \E from \in Values, to \in Values : RemoveEdge(from, to)
    \/ Clear

WalkCall(start) ==
    Return(G, [Call("Walk", start, Nil) EXCEPT !.visits = Walk(G, start)])

BreadthFirstWalkCall(start) ==
    Return(G, [Call("BreadthFirstWalk", start, Nil)
                   EXCEPT !.visits = BreadthFirstWalk(G, start)])

ReverseBreadthFirstWalkCall(start) ==
    Return(G, [Call("ReverseBreadthFirstWalk", start, Nil)
                   EXCEPT !.visits = ReverseBreadthFirstWalk(G, start)])

WalkNext ==
    \/ Mutate
    \/ \E start \in Values : WalkCall(start)
    \/ \E start \in Values : BreadthFirstWalkCall(start)
    \/ \E start \in Values : ReverseBreadthFirstWalkCall(start)

WalkSpec == Init /\ [][WalkNext]_vars

LevelOrderCall ==
    \E order \in MapOrders(G) :
        Return(G, [Call("LevelOrder", Nil, Nil) EXCEPT !.levels = LevelOrder(G, order)])

LevelNext == Mutate \/ LevelOrderCall

LevelSpec == Init /\ [][LevelNext]_vars

ShortestPathCall(from, to) ==
    LET r == ShortestPath(G, from, to)
    IN  Return(G, [Call("ShortestPath", from, to)
                       EXCEPT !.seq = r.elems, !.isNil = r.isNil])

PathNext == Mutate \/ \E from \in Values, to \in Values : ShortestPathCall(from, to)

PathSpec == Init /\ [][PathNext]_vars

AncestorsCall(v) ==
    LET r == Ancestors(G, v)
    IN  Return(G, [Call("Ancestors", v, Nil) EXCEPT !.seq = r.elems, !.isNil = r.isNil])

DescendantsCall(v) ==
    LET r == Descendants(G, v)
    IN  Return(G, [Call("Descendants", v, Nil) EXCEPT !.seq = r.elems, !.isNil = r.isNil])

ClosureNext ==
    \/ Mutate
    \/ \E v \in Values : AncestorsCall(v)
    \/ \E v \in Values : DescendantsCall(v)

ClosureSpec == Init /\ [][ClosureNext]_vars

\* The caller looks a node up and keeps it; it keeps a single node, the
\* first it looks up.
NodeCall(v) ==
    /\ handle = Nil
    /\ ReturnKeeping(G, [Call("Node", v, Nil) EXCEPT !.node = Node(G, v)], Node(G, v))

\* The values used while the caller keeps a node.
HandleValues == {5 * i : i \in 1..NumHandleValues}

HandleNext ==
    \/ \E v \in HandleValues : AddNode(v)
    \/ \E from \in HandleValues, to \in HandleValues : AddEdge(from, to)
    \/ \E v \in HandleValues : RemoveNode(v)
    \/ \E from \in HandleValues, to \in HandleValues : RemoveEdge(from, to)
    \/ Clear
    \/ \E v \in HandleValues : NodeCall(v)

HandleSpec == Init /\ [][HandleNext]_vars

----------------------------------------------------------------------------
(* Properties *)

\* The nodes registered in the current graph.
Reg == Registered(G)

\* The least set containing S and closed under the adjacency f.
RECURSIVE Closure(_, _)
Closure(f, S) ==
    LET T == S \cup UNION {f[o] : o \in S}
    IN  IF T = S THEN S ELSE Closure(f, T)

\* The nodes reachable from n by one or more child edges.
StrictlyBelow(n) == Closure(children, children[n])

\* The nodes from which n is reachable by one or more parent edges.
StrictlyAbove(n) == Closure(parents, parents[n])

\* Some edge links two registered nodes.
SomeEdge == \E x \in Reg, y \in Reg : y \in children[x]

\* A chain of two edges x -> y -> z exists.
SomeChain == \E x \in Reg, y \in Reg, z \in Reg : y \in children[x] /\ z \in children[y]

\* The step leaves the index and every node as they were.
GraphUnchanged == UNCHANGED <<nodes, data, parents, children>>

\* C1: between operations the graph of the registered nodes has no directed
\* cycle, neither through the children sets nor through the parents sets, and
\* no node is its own child or parent.
C1_NoCycle ==
    \A n \in Reg : n \notin StrictlyBelow(n) /\ n \notin StrictlyAbove(n)

\* An edge closing a cycle through a chain of two edges has just been refused.
C1_Witness ==
    /\ last.op = "AddEdge" /\ last.err = "ErrCycleDetected"
    /\ last.from # last.to
    /\ nodes[last.from] \notin children[nodes[last.to]]
    /\ nodes[last.from] \in StrictlyBelow(nodes[last.to])

\* C2 (as stated): AddEdge(from, to) returns ErrCycleDetected exactly when
\* the node of to already has the node of from among its ancestors.
C2_AsStated ==
    [][last'.op = "AddEdge" =>
         (last'.err = "ErrCycleDetected" <=>
             /\ nodes[last'.from] # Nil /\ nodes[last'.to] # Nil
             /\ nodes[last'.from] \in StrictlyAbove(nodes[last'.to]))]_vars

\* C2 (amended): AddEdge(from, to) returns ErrCycleDetected exactly when
\* from = to or the node of from already has the node of to among its
\* ancestors; otherwise it returns nil and from -> to is linked both ways.
C2_RejectsIffFromHasAncestorTo ==
    [][last'.op = "AddEdge" =>
         LET cyc == \/ last'.from = last'.to
                    \/ /\ nodes[last'.from] # Nil /\ nodes[last'.to] # Nil
                       /\ nodes[last'.to] \in StrictlyAbove(nodes[last'.from])
         IN  /\ last'.err = "ErrCycleDetected" <=> cyc
             /\ ~cyc => /\ last'.err = "nil"
                        /\ nodes'[last'.from] # Nil /\ nodes'[last'.to] # Nil
                        /\ nodes'[last'.to] \in children'[nodes'[last'.from]]
                        /\ nodes'[last'.from] \in parents'[nodes'[last'.to]]]_vars

\* An edge was refused although to did not have from as an ancestor: from
\* had to as an ancestor at distance two.
C2_Witness ==
    /\ last.op = "AddEdge" /\ last.err = "ErrCycleDetected"
    /\ last.from # last.to
    /\ nodes[last.from] \notin StrictlyAbove(nodes[last.to])
    /\ nodes[last.to] \in StrictlyAbove(nodes[last.from])
    /\ nodes[last.to] \notin parents[nodes[last.from]]

\* C3: a call of AddEdge that returns ErrCycleDetected leaves the index and
\* every node's parents and children as they were.
C3_RejectedEdgeLeavesGraph ==
    [][(last'.op = "AddEdge" /\ last'.err = "ErrCycleDetected") => GraphUnchanged]_vars

\* C4: AddEdge(b, a) called while the edge a -> b is present returns
\* ErrCycleDetected and leaves the index and every node as they were.
C4_NoReverseEdge ==
    [][(/\ last'.op = "AddEdge"
        /\ nodes[last'.from] # Nil /\ nodes[last'.to] # Nil
        /\ nodes[last'.from] \in children[nodes[last'.to]])
       => (last'.err = "ErrCycleDetected" /\ GraphUnchanged)]_vars

\* The reverse of a present edge has just been refused.
C4_Witness ==
    /\ last.op = "AddEdge" /\ last.err = "ErrCycleDetected"
    /\ last.from # last.to
    /\ nodes[last.from] \in children[nodes[last.to]]
    /\ ~last.changed

\* C5: for all registered nodes x and y, y is a child of x exactly when x is
\* a parent of y.
C5_Mutual ==
    \A x \in Reg, y \in Reg : y \in children[x] <=> x \in parents[y]

\* A removal has just taken something out of a graph that still has an edge.
C5_Witness ==
    /\ last.op \in {"RemoveEdge", "RemoveNode"}
    /\ last.changed
    /\ SomeEdge

\* C6: RemoveNode(v) with v registered leaves v without a node, leaves every
\* other value its node, and takes exactly the removed node out of the
\* parents and children of every remaining node, none of which still holds a
\* node of value v.
C6_RemoveNodeCascades ==
    [][(last'.op = "RemoveNode" /\ nodes[last'.from] # Nil) =>
         LET v == last'.from
             n == nodes[v]
         IN  /\ nodes'[v] = Nil
             /\ \A w \in Values \ {v} : nodes'[w] = nodes[w]
             /\ \A o \in Registered(G) \ {n} :
                   /\ parents'[o] = parents[o] \ {n}
                   /\ children'[o] = children[o] \ {n}
                   /\ data'[o] = data[o]
                   /\ \A p \in parents'[o] \cup children'[o] : data'[p] # v]_vars

\* A registered node has just been removed and an edge between other nodes
\* is still there.
C6_Witness ==
    /\ last.op = "RemoveNode" /\ last.changed
    /\ nodes[last.from] = Nil
    /\ SomeEdge

\* C7: AddNode(v) with v registered returns the node already registered for
\* v, leaves a single node of value v, and leaves the index and every node as
\* they were.
C7_AddNodeIdempotent ==
    [][(last'.op = "AddNode" /\ nodes[last'.from] # Nil) =>
         /\ last'.node = nodes[last'.from]
         /\ Cardinality({o \in Objs : data'[o] = last'.from}) = 1
         /\ GraphUnchanged]_vars

\* AddNode has just returned an existing node that has edges.
C7_Witness ==
    /\ last.op = "AddNode" /\ ~last.changed
    /\ last.node = nodes[last.from]
    /\ parents[last.node] # {} /\ children[last.node] # {}

\* C8: RemoveNode(v) with v not registered, and RemoveEdge(from, to) with an
\* endpoint not registered or without the edge from -> to, leave the index
\* and every node as they were and return no error; RemoveEdge never changes
\* the index.
C8_RemoveMissingNoOp ==
    [][/\ (last'.op = "RemoveNode" /\ nodes[last'.from] = Nil)
            => (GraphUnchanged /\ last'.err = "nil")
       /\ last'.op = "RemoveEdge"
            => /\ nodes' = nodes
               /\ last'.err = "nil"
               /\ (\/ nodes[last'.from] = Nil
                   \/ nodes[last'.to] = Nil
                   \/ nodes[last'.to] \notin children[nodes[last'.from]])
                     => GraphUnchanged]_vars

\* RemoveEdge(from, to) has just found both endpoints but no edge from -> to,
\* while the edge to -> from is there.
C8_Witness ==
    /\ last.op = "RemoveEdge" /\ ~last.changed
    /\ nodes[last.from] # Nil /\ nodes[last.to] # Nil
    /\ nodes[last.from] \in children[nodes[last.to]]

\* C9: right after Clear, Nodes() and Edges() are empty and Node(v) is nil
\* for every value; and AddNode(v) for a value v that has no node registers
\* a node with no parents and no children.
C9_ClearEmpties ==
    /\ [](last.op = "Clear" =>
            /\ \A order \in MapOrders(G) :
                  Nodes(G, order) = <<>> /\ Edges(G, order) = <<>>
            /\ \A v \in Values : Node(G, v) = Nil)
    /\ [][\A v \in Values :
            (/\ last'.op = "AddNode" /\ last'.from = v /\ nodes[v] = Nil)
            => (nodes'[v] # Nil /\ parents'[nodes'[v]] = {} /\ children'[nodes'[v]] = {})]_vars

\* Clear has just emptied a graph that had nodes.
C9_Witness ==
    last.op = "Clear" /\ last.changed

\* C10: Traverse returns every registered node exactly once, with the source
\* of every edge placed strictly before its target, and a nil error.
C10_TraverseLinearExtension ==
    last.op = "Traverse" =>
        /\ last.err = "nil"
        /\ Len(last.seq) = Cardinality(Reg)
        /\ \A n \in Reg : \E i \in 1..Len(last.seq) : last.seq[i] = n
        /\ \A i \in 1..Len(last.seq), j \in 1..Len(last.seq) :
              last.seq[j] \in children[last.seq[i]] => i < j

\* Traverse has just returned three nodes of a graph with a chain of two
\* edges.
C10_Witness ==
    /\ last.op = "Traverse"
    /\ Len(last.seq) = 3
    /\ SomeChain

\* The values of a sequence of nodes.
DataOf(ns) == [i \in 1..Len(ns) |-> data[ns[i]]]

\* The elements of a sequence.
Range(q) == {q[i] : i \in 1..Len(q)}

\* No element occurs twice in the sequence.
NoRepeat(q) == Cardinality(Range(q)) = Len(q)

\* The sequence lists exactly the set S, in strictly increasing order of the
\* textual form of the nodes' values.
SortedListing(q, S) ==
    /\ Range(q) = S
    /\ \A i \in 1..Len(q), j \in 1..Len(q) :
          i < j => StringLess(Sprintf(data[q[i]]), Sprintf(data[q[j]]))

\* C11: whatever order the node index is enumerated in and whatever order
\* the graph was built in, Parents() and Children() list a node's neighbours
\* in the one order fixed by their values, and Traverse() and Visualize()
\* each have a single possible result for the graph.
C11_DeterministicOrdering ==
    /\ \A n \in Reg : /\ SortedListing(Parents(G, n), parents[n])
                      /\ SortedListing(Children(G, n), children[n])
    /\ \A o1 \in MapOrders(G), o2 \in MapOrders(G) :
          /\ DataOf(Traverse(G, o1)) = DataOf(Traverse(G, o2))
          /\ Visualize(G, o1) = Visualize(G, o2)

\* C12: the result of Ancestors / Descendants for a value that is not
\* registered differs from the result for a registered node that has no
\* parents / no children.
C12_AbsentDistinct ==
    \A v \in Values, w \in Values :
        (nodes[v] # Nil /\ nodes[w] = Nil) =>
            /\ parents[nodes[v]] = {} => Ancestors(G, v) # Ancestors(G, w)
            /\ children[nodes[v]] = {} => Descendants(G, v) # Descendants(G, w)

\* The number of edges on a shortest path from a node of S to t along the
\* adjacency f, S being what k edges reach; t must be reachable.
RECURSIVE Distance(_, _, _, _)
Distance(f, S, t, k) ==
    IF t \in S THEN k
    ELSE Distance(f, S \cup UNION {f[o] : o \in S}, t, k + 1)

\* C13: ShortestPath(from, to), with both registered and to reachable from
\* from, returns a path from the node of from to the node of to along child
\* edges with the fewest edges possible ([v] for from = to = v); otherwise it
\* returns nil.
C13_ShortestPath ==
    last.op = "ShortestPath" =>
        LET f == nodes[last.from]
            t == nodes[last.to]
            q == last.seq
        IN  IF f # Nil /\ t # Nil /\ (f = t \/ t \in StrictlyBelow(f))
            THEN /\ ~last.isNil
                 /\ q[1] = f /\ q[Len(q)] = t
                 /\ \A i \in 1..(Len(q) - 1) : q[i + 1] \in children[q[i]]
                 /\ Len(q) - 1 = Distance(children, {f}, t, 0)
                 /\ f = t => q = <<f>>
            ELSE last.isNil /\ q = <<>>

\* ShortestPath has just returned a direct edge although a path of two
\* edges leads to the same node.
C13_Witness ==
    /\ last.op = "ShortestPath"
    /\ Len(last.seq) = 2
    /\ \E m \in Reg : m \in children[last.seq[1]] /\ last.seq[2] \in children[m]

\* C14: for a registered v, Ancestors(v) lists exactly the nodes from which
\* v is reachable by one or more edges and Descendants(v) exactly the nodes
\* reachable from v by one or more edges, each once and never v's own node.
C14_AncestorsDescendants ==
    /\ (last.op = "Ancestors" /\ nodes[last.from] # Nil) =>
          /\ Range(last.seq) = StrictlyAbove(nodes[last.from])
          /\ NoRepeat(last.seq)
          /\ nodes[last.from] \notin Range(last.seq)
    /\ (last.op = "Descendants" /\ nodes[last.from] # Nil) =>
          /\ Range(last.seq) = StrictlyBelow(nodes[last.from])
          /\ NoRepeat(last.seq)
          /\ nodes[last.from] \notin Range(last.seq)

\* Ancestors has just returned a parent and a grandparent.
C14_Witness ==
    /\ last.op = "Ancestors"
    /\ Len(last.seq) = 2
    /\ last.seq[2] \in parents[last.seq[1]]

\* The number of edges on the longest path from a node without parents to n.
RECURSIVE Depth(_)
Depth(n) ==
    IF parents[n] = {} THEN 0
    ELSE LET ds == {Depth(p) : p \in parents[n]}
         IN  1 + CHOOSE d \in ds : \A e \in ds : e <= d

\* C15: LevelOrder puts every registered node in exactly one level, the
\* nodes without parents in the first, and every node in the level whose
\* index is the length of the longest path from a root to it; no level is
\* empty.
C15_LevelOrder ==
    last.op = "LevelOrder" =>
        LET ls == last.levels
            at == {<<k, i>> \in (1..Len(ls)) \X (1..Cardinality(Reg)) : i <= Len(ls[k])}
        IN  /\ \A k \in 1..Len(ls) : ls[k] # <<>>
            /\ {ls[p[1]][p[2]] : p \in at} = Reg
            /\ Cardinality(at) = Cardinality(Reg)
            /\ \A p \in at : Depth(ls[p[1]][p[2]]) = p[1] - 1
            /\ Reg # {} => Range(ls[1]) = {n \in Reg : parents[n] = {}}
            /\ \A p \in at, r \in at :
                  ls[r[1]][r[2]] \in children[ls[p[1]][p[2]]] => p[1] < r[1]

\* LevelOrder has just returned three levels.
C15_Witness ==
    last.op = "LevelOrder" /\ Len(last.levels) = 3

\* The visits of a breadth-first walk from start along the adjacency f:
\* the start first, each node that f reaches from it once, no other node,
\* and never a node before one that is nearer to the start.
BreadthFirstVisits(f, start, visits) ==
    IF nodes[start] = Nil THEN visits = <<>>
    ELSE LET s == nodes[start]
             dist(v) == Distance(f, {s}, nodes[v], 0)
         IN  /\ visits[1] = start
             /\ NoRepeat(visits)
             /\ {nodes[v] : v \in Range(visits)} = {s} \cup Closure(f, f[s])
             /\ \A v \in Range(visits) : nodes[v] # Nil
             /\ \A i \in 1..Len(visits), j \in 1..Len(visits) :
                   dist(visits[i]) < dist(visits[j]) => i < j

Diamond ==
    [nodes |-> [v \in 1..5 |-> IF v = 5 THEN Nil ELSE v],
     data |-> [o \in 1..4 |-> o],
     parents |-> <<{}, {1}, {1}, {2, 3}>>,
     children |-> <<{2, 3}, {4}, {4}, {}>>]

\* The visits are those of a pre-order depth-first walk from start: after
\* each visit the next one is the first child, in Children() order, not yet
\* visited, of the latest visited node that has such a child; the walk ends
\* when no visited node has one.
PreOrderVisits(start, visits) ==
    IF nodes[start] = Nil THEN visits = <<>>
    ELSE LET n == Len(visits)
             s == [i \in 1..n |-> nodes[visits[i]]]
             Seen(i) == {s[k] : k \in 1..i}
             Open(i) == {j \in 1..i : ~(children[s[j]] \subseteq Seen(i))}
             Latest(i) == CHOOSE j \in Open(i) : \A k \in Open(i) : k <= j
             FirstUnseen(i) ==
                 LET cs == Children(G, s[Latest(i)])
                     k == CHOOSE x \in 1..Len(cs) :
                              /\ cs[x] \notin Seen(i)
                              /\ \A y \in 1..(x - 1) : cs[y] \in Seen(i)
                 IN  cs[k]
         IN  /\ n >= 1
             /\ visits[1] = start
             /\ \A v \in Range(visits) : nodes[v] # Nil
             /\ \A i \in 1..(n - 1) : Open(i) # {} /\ s[i + 1] = FirstUnseen(i)
             /\ Open(n) = {}

\* C17: Walk calls visit once for the start and for each node reachable from
\* it, for no other node, in pre-order depth-first order over Children();
\* from a start that is not registered visit is not called; on the graph
\* 1->2, 1->3, 2->4, 3->4 Walk(1) visits 1, 2, 4, 3 and BreadthFirstWalk(1)
\* visits 1, 2, 3, 4.
C17_WalkPreOrder ==
    /\ last.op = "Walk" =>
          /\ PreOrderVisits(last.from, last.visits)
          /\ NoRepeat(last.visits)
          /\ nodes[last.from] # Nil =>
                {nodes[v] : v \in Range(last.visits)}
                    = {nodes[last.from]} \cup StrictlyBelow(nodes[last.from])
    /\ Walk(Diamond, 1) = <<1, 2, 4, 3>>
    /\ BreadthFirstWalk(Diamond, 1) = <<1, 2, 3, 4>>
    /\ Walk(Diamond, 1) # BreadthFirstWalk(Diamond, 1)
    /\ Walk(Diamond, 5) = <<>>

\* Walk has just visited a node with two parents, once, under the first of
\* them.
C17_Witness ==
    /\ last.op = "Walk"
    /\ Len(last.visits) = 3
    /\ Cardinality(parents[nodes[last.visits[3]]]) = 2
    /\ nodes[last.visits[3]] \in children[nodes[last.visits[2]]]

\* C18: AddEdge(from, to) returns ErrCycleDetected exactly when HasPath(to,
\* from) holds in the graph with both endpoints registered; AddEdge(v, v) is
\* always refused; adding an edge that is there is accepted and changes
\* nothing; and whenever AddEdge returns nil, HasEdge(from, to) holds.
C18_RejectsIffHasPath ==
    [][last'.op = "AddEdge" =>
         LET from == last'.from
             to == last'.to
             both == addNode(addNode(G, from).g, to).g
         IN  /\ last'.err = "ErrCycleDetected" <=> HasPath(both, to, from)
             /\ from = to => last'.err = "ErrCycleDetected"
             /\ HasEdge(G, from, to) => (last'.err = "nil" /\ GraphUnchanged)
             /\ last'.err = "nil" =>
                   /\ HasEdge(G', from, to)
                   /\ Cardinality({i \in 1..Len(Children(G', nodes'[from])) :
                          Children(G', nodes'[from])[i] = nodes'[to]}) = 1]_vars

\* AddEdge has just accepted an edge that was already there.
C18_Witness ==
    /\ last.op = "AddEdge" /\ last.err = "nil"
    /\ ~last.changed
    /\ HasEdge(G, last.from, last.to)

\* C19: RemoveNode(v) leaves the removed node object its data, parents and
\* children, so that a node the caller kept still lists its former
\* neighbours through Parents() and Children() while no registered node
\* lists it and Node(v) is nil; an AddNode or AddEdge that then registers v
\* again creates another node, whose adjacency holds at most the edge being
\* added, and leaves the kept node as it was.
C19_RemovedNodeKeepsAdjacency ==
    [][/\ (last'.op = "RemoveNode" /\ handle # Nil /\ handle = nodes[last'.from]) =>
            /\ handle' = handle
            /\ Node(G', last'.from) = Nil
            /\ data'[handle] = data[handle]
            /\ parents'[handle] = parents[handle]
            /\ children'[handle] = children[handle]
            /\ Parents(G', handle) = Parents(G, handle)
            /\ Children(G', handle) = Children(G, handle)
            /\ \A o \in Registered(G') : handle \notin parents'[o] \cup children'[o]
       /\ (last'.op \in {"AddNode", "AddEdge"} /\ handle # Nil) =>
            \A v \in {last'.from, last'.to} \ {Nil} :
                (nodes[v] = Nil /\ data[handle] = v) =>
                    /\ nodes'[v] # Nil
                    /\ nodes'[v] # handle
                    /\ handle' = handle
                    /\ data'[handle] = v
                    /\ parents'[handle] = parents[handle]
                    /\ children'[handle] = children[handle]
                    /\ (parents'[nodes'[v]] \cup children'[nodes'[v]])
                          \subseteq ({nodes'[w] : w \in {last'.from, last'.to} \ {Nil}}
                                         \ {nodes'[v]})
                    /\ last'.op = "AddNode" =>
                          /\ last'.node = nodes'[v]
                          /\ parents'[nodes'[v]] = {} /\ children'[nodes'[v]] = {}]_vars

\* AddNode has just created a second node for the value of a removed node
\* that the caller kept and that still lists a neighbour.
C19_Witness ==
    /\ last.op = "AddNode" /\ last.changed
    /\ handle # Nil
    /\ data[handle] = last.from
    /\ last.node # handle
    /\ parents[handle] \cup children[handle] # {}

====
